---- MODULE Spec2Model ----
(***************************************************************************)
(* State-machine model of the caption service in src/src/server.js: the    *)
(* GET /captions handler, getCaptionTracks, takeScreenshot, the caption    *)
(* cache and parseXmlTranscript, and of parseEvents in src/src/index.js.   *)
(* JavaScript strings are sequences of                                     *)
(* one-character strings, so that concatenation and startsWith are         *)
(* computed rather than assumed.  The handler runs on one event loop: an   *)
(* action is the code executed between two awaits.                         *)
(***************************************************************************)
EXTENDS Integers, Sequences, FiniteSets, TLC

(***************************************************************************)
(* Bounds of the model.                                                    *)
(***************************************************************************)
MaxRequests == 2
MaxTicks == 2
MaxNodes == 2
MaxTracks == 3
MaxEvents == 2

(***************************************************************************)
(* Program constants.                                                      *)
(***************************************************************************)
CACHE_TTL == 3600000

Slots == {1, 2}

(***************************************************************************)
(* Strings.                                                                *)
(***************************************************************************)
EmptyStr == << >>
DefaultLang == <<"e", "n">>
Underscore == <<"_">>

TrimLeft(s) ==
  LET idx == {k \in 1..Len(s) : s[k] # " "}
  IN IF idx = {} THEN << >>
     ELSE SubSeq(s, CHOOSE k \in idx : \A m \in idx : k <= m, Len(s))

TrimRight(s) ==
  LET idx == {k \in 1..Len(s) : s[k] # " "}
  IN IF idx = {} THEN << >>
     ELSE SubSeq(s, 1, CHOOSE k \in idx : \A m \in idx : k >= m)

Trim(s) == TrimRight(TrimLeft(s))

StartsWith(s, p) == Len(p) <= Len(s) /\ SubSeq(s, 1, Len(p)) = p

(***************************************************************************)
(* Inputs: the query strings a client can send.  An absent parameter and   *)
(* an empty one are both falsy and are the empty sequence here.            *)
(***************************************************************************)
Videos == {EmptyStr, <<"v">>, <<"v", "_", "e">>}
Langs == {EmptyStr, <<"n">>, <<"e", "_", "n">>}
Queries == [video : Videos, lang : Langs, screenshot : BOOLEAN, nocache : BOOLEAN]

(***************************************************************************)
(* The caption tracks a watch page can expose: every list of at most       *)
(* MaxTracks tracks in these languages, the k-th with URL Digit[k].        *)
(***************************************************************************)
Track(u, l) == [baseUrl |-> u, languageCode |-> l]
EN == <<"e", "n">>
ENUS == <<"e", "n", "-", "U", "S">>
FR == <<"f", "r">>
Languages == {EN, ENUS, FR}
Digit == <<"1", "2", "3", "4", "5">>
ListOf(ls) == [k \in 1..Len(ls) |-> Track(Digit[k], ls[k])]
TrackLists == {ListOf(ls) : ls \in UNION {[1..n -> Languages] : n \in 0..MaxTracks}}

(***************************************************************************)
(* Timed-text payloads.  A payload is the list of <text> nodes under the   *)
(* <transcript> root; an attribute is absent, numeric ("2"), not numeric   *)
(* ("abc") or a number followed by other characters ("2abc"); the inner    *)
(* text is absent, a string, or a number (fast-xml-parser converts a       *)
(* numeric tag value to a number).                                         *)
(***************************************************************************)
NumAttr(n) == [kind |-> "num", n |-> n]
NoAttr == [kind |-> "absent", n |-> 0]
BadAttr == [kind |-> "nonnum", n |-> 0]
PrefixAttr(n) == [kind |-> "numprefix", n |-> n]
StrText(s) == [kind |-> "str", str |-> s, n |-> 0]
NoText == [kind |-> "absent", str |-> << >>, n |-> 0]
NumText(n) == [kind |-> "num", str |-> << >>, n |-> n]

Node(u, j) == [start |-> NumAttr(j), dur |-> NumAttr(1), text |-> StrText(<<" ", u, " ">>)]
Doc(u, n) == [j \in 1..n |-> Node(u, j)]

FetchError == [ok |-> FALSE, data |-> << >>]
FetchOk(doc) == [ok |-> TRUE, data |-> doc]
Responses(u) == {FetchError} \cup {FetchOk(Doc(u, n)) : n \in 0..MaxNodes}


(***************************************************************************)
(* fast-xml-parser: the value of json.transcript.text.  No <text> child    *)
(* gives undefined, one child gives that node's value, several children    *)
(* give an array of values.  The value of a node that has attributes is an *)
(* object with '@_start', '@_dur' and '#text'; the value of a node without *)
(* attributes is its inner text itself, '' when it has none.               *)
(***************************************************************************)
HasAttrs(node) == node.start.kind # "absent" \/ node.dur.kind # "absent"

\* the value of the node is '' or 0
Falsy(node) ==
  /\ ~HasAttrs(node)
  /\ \/ node.text.kind = "absent"
     \/ node.text.kind = "str" /\ Trim(node.text.str) = EmptyStr
     \/ node.text.kind = "num" /\ node.text.n = 0

ParserParse(doc) ==
  IF Len(doc) = 0 THEN [kind |-> "undefined", nodes |-> << >>]
  ELSE IF Len(doc) = 1
    THEN IF Falsy(doc[1]) THEN [kind |-> "falsy", nodes |-> << >>]
         ELSE [kind |-> "object", nodes |-> doc]
  ELSE [kind |-> "array", nodes |-> doc]

\* parseFloat(attr) || 0
ParseFloatOr0(attr) == IF attr.kind \in {"num", "numprefix"} THEN attr.n ELSE 0

\* (node['#text'] || '').trim() raises when '#text' is a non-zero number
TextThrows(node) == HasAttrs(node) /\ node.text.kind = "num" /\ node.text.n # 0

NodeText(node) ==
  IF HasAttrs(node) /\ node.text.kind = "str" THEN Trim(node.text.str) ELSE << >>

MapNode(node) ==
  [start |-> ParseFloatOr0(node.start),
   dur |-> ParseFloatOr0(node.dur),
   text |-> NodeText(node)]

Threw == [threw |-> TRUE, entries |-> << >>]
Returned(entries) == [threw |-> FALSE, entries |-> entries]

parseXmlTranscript(doc) ==
  LET json == ParserParse(doc)
      texts == IF json.kind \in {"undefined", "falsy"}
                 THEN [kind |-> "array", nodes |-> << >>] ELSE json
  IN IF texts.kind # "array" THEN Threw
     ELSE IF \E j \in 1..Len(texts.nodes) : TextThrows(texts.nodes[j]) THEN Threw
     ELSE Returned([j \in 1..Len(texts.nodes) |-> MapNode(texts.nodes[j])])


(***************************************************************************)
(* The state.  rq[r] is one invocation of the /captions handler: its       *)
(* serial number (id), its position (pc), its locals, and a record of what *)
(* it has done so far (fetched: the tracks it issued a fetch for, got:     *)
(* what each fetch returned, gctCalls, shotCalls, cacheGets, seenAge: the  *)
(* age of the entry captionCache.get returned or -1, cacheSets, returned:  *)
(* whether getCaptionTracks returned, shotThrew, resp: responses sent).    *)
(* payload and outcome are the argument and the result of a parser called   *)
(* on its own (SpecParse); the server leaves them alone.                   *)
(***************************************************************************)
VARIABLES browser, listening, captionCache, now, ticks, openContexts, started, rq,
          payload, outcome

vars == <<browser, listening, captionCache, now, ticks, openContexts, started, rq,
          payload, outcome>>

Idle ==
  [id |-> 0, pc |-> "idle", videoID |-> EmptyStr, lang |-> EmptyStr, wantShot |-> FALSE,
   noCache |-> FALSE, tracks |-> << >>, i |-> 0, captions |-> << >>,
   successfulTrack |-> 0, shotTime |-> 0, fetched |-> << >>, gctCalls |-> 0,
   shotCalls |-> 0, cacheGets |-> 0, seenAge |-> -1, cacheSets |-> 0, got |-> << >>,
   returned |-> FALSE, shotThrew |-> FALSE, resp |-> << >>]

NoPayload == [fmt |-> "none", data |-> << >>]
NotParsed == [done |-> FALSE, threw |-> FALSE, entries |-> << >>]

Init ==
  /\ browser = "undefined"
  /\ listening = FALSE
  /\ captionCache = << >>
  /\ now = 0
  /\ ticks = 0
  /\ openContexts = 0
  /\ started = 0
  /\ rq = [r \in Slots |-> Idle]
  /\ payload = NoPayload
  /\ outcome = NotParsed

(***************************************************************************)
(* The cache: a Map from key to {timestamp, data}.                         *)
(***************************************************************************)
CacheKey(videoID, lang) == videoID \o Underscore \o lang

\* IsFresh with an entry aged exactly CACHE_TTL still valid
IsFreshInclusive(cached, t) == (t - cached.timestamp) <= CACHE_TTL

IsFresh(cached, t) == (t - cached.timestamp) < CACHE_TTL

CacheHit(cache, key, t) == key \in DOMAIN cache /\ IsFresh(cache[key], t)

\* CacheSet that keeps the entry a key already has
CacheSetKeepFirst(cache, key, entry) ==
  [k \in (DOMAIN cache) \cup {key} |-> IF k \in DOMAIN cache THEN cache[k] ELSE entry]

CacheSet(cache, key, entry) ==
  [k \in (DOMAIN cache) \cup {key} |-> IF k = key THEN entry ELSE cache[k]]

(***************************************************************************)
(* Responses.                                                              *)
(***************************************************************************)
Json(status, data) == [status |-> status, data |-> {data}, error |-> FALSE]
JsonError(status) == [status |-> status, data |-> {}, error |-> TRUE]

\* Respond that sends the response twice
RespondTwice(s, response) ==
  [s EXCEPT !.pc = "done", !.resp = Append(Append(@, response), response)]

Respond(s, response) == [s EXCEPT !.pc = "done", !.resp = Append(@, response)]

\* the catch of lines 193-196
Catch500(s) == Respond(s, JsonError(500))

(***************************************************************************)
(* Lines 125-146: the handler up to its first await.                       *)
(***************************************************************************)
Lang(q) == IF q.lang = EmptyStr THEN DefaultLang ELSE q.lang

Age(cache, key, t) == IF key \in DOMAIN cache THEN t - cache[key].timestamp ELSE -1

\* Entry without the check of lines 131-134
EntryNoValidation(q) ==
  LET s == [Idle EXCEPT !.id = started + 1, !.videoID = q.video, !.lang = Lang(q),
                        !.wantShot = q.screenshot, !.noCache = q.nocache]
      cacheKey == CacheKey(s.videoID, s.lang)
      looked == [s EXCEPT !.cacheGets = 1, !.seenAge = Age(captionCache, cacheKey, now)]
      called == [(IF s.noCache THEN s ELSE looked) EXCEPT !.gctCalls = 1]
  IN IF ~s.noCache /\ CacheHit(captionCache, cacheKey, now)
       THEN Respond(looked, Json(200, captionCache[cacheKey].data))
     ELSE IF browser = "undefined" THEN Catch500(called)
     ELSE [called EXCEPT !.pc = "gct_newContext"]

\* Entry without the cache lookup of lines 137-143
EntryIgnoresCache(q) ==
  LET s == [Idle EXCEPT !.id = started + 1, !.videoID = q.video, !.lang = Lang(q),
                        !.wantShot = q.screenshot, !.noCache = q.nocache]
      called == [s EXCEPT !.gctCalls = 1]
  IN IF s.videoID = EmptyStr THEN Respond(s, JsonError(400))
     ELSE IF browser = "undefined" THEN Catch500(called)
     ELSE [called EXCEPT !.pc = "gct_newContext"]

Entry(q) ==
  LET s == [Idle EXCEPT !.id = started + 1, !.videoID = q.video, !.lang = Lang(q),
                        !.wantShot = q.screenshot, !.noCache = q.nocache]
      cacheKey == CacheKey(s.videoID, s.lang)
      looked == [s EXCEPT !.cacheGets = 1, !.seenAge = Age(captionCache, cacheKey, now)]
      called == [(IF s.noCache THEN s ELSE looked) EXCEPT !.gctCalls = 1]
  IN IF s.videoID = EmptyStr THEN Respond(s, JsonError(400))
     ELSE IF ~s.noCache /\ CacheHit(captionCache, cacheKey, now)
       THEN Respond(looked, Json(200, captionCache[cacheKey].data))
     ELSE IF browser = "undefined" THEN Catch500(called)
     ELSE [called EXCEPT !.pc = "gct_newContext"]

(***************************************************************************)
(* Lines 150-174: the candidate loop, from track number `from` to the next *)
(* await (a fetch) or to the end of the list.                              *)
(***************************************************************************)
\* Matches without the startsWith of line 152
MatchesExactly(languageCode, lang) == languageCode = lang

Matches(languageCode, lang) == languageCode = lang \/ StartsWith(languageCode, lang)

NextCandidate(s, from) ==
  LET c == {k \in from..Len(s.tracks) : Matches(s.tracks[k].languageCode, s.lang)}
  IN IF c = {} THEN 0 ELSE CHOOSE k \in c : \A m \in c : k <= m

\* Lines 176-185 up to the await of takeScreenshot; "assembled" is the point
\* of line 187, reached in the same step when no screenshot is awaited.
AfterLoop(s) ==
  IF s.wantShot
    THEN IF browser = "undefined"
           THEN [s EXCEPT !.pc = "assembled", !.shotCalls = 1, !.shotThrew = TRUE]
           ELSE [s EXCEPT !.pc = "shot_newContext", !.shotCalls = 1]
    ELSE [s EXCEPT !.pc = "assembled"]

ContinueLoop(s, from) ==
  LET k == NextCandidate(s, from)
  IN IF k = 0 THEN AfterLoop(s)
     ELSE [s EXCEPT !.pc = "fetch", !.i = k, !.fetched = Append(@, k)]

\* AfterFetch without the break of line 167
AfterFetchNoBreak(s, response) ==
  LET parsed == IF response.ok THEN parseXmlTranscript(response.data) ELSE Threw
      t == [s EXCEPT !.got = Append(@, response)]
  IN IF ~parsed.threw /\ Len(parsed.entries) > 0
       THEN ContinueLoop([t EXCEPT !.captions = parsed.entries, !.successfulTrack = s.i],
                         s.i + 1)
       ELSE ContinueLoop(t, s.i + 1)

\* AfterFetch without the try/catch of lines 156-173
AfterFetchNoCatch(s, response) ==
  LET parsed == IF response.ok THEN parseXmlTranscript(response.data) ELSE Threw
      t == [s EXCEPT !.got = Append(@, response)]
  IN IF parsed.threw THEN Catch500(t)
     ELSE IF Len(parsed.entries) > 0
       THEN AfterLoop([t EXCEPT !.captions = parsed.entries, !.successfulTrack = s.i])
       ELSE ContinueLoop(t, s.i + 1)

\* Lines 162-173: the continuation of axios.get
AfterFetch(s, response) ==
  LET parsed == IF response.ok THEN parseXmlTranscript(response.data) ELSE Threw
      t == [s EXCEPT !.got = Append(@, response)]
  IN IF ~parsed.threw /\ Len(parsed.entries) > 0
       THEN AfterLoop([t EXCEPT !.captions = parsed.entries, !.successfulTrack = s.i])
       ELSE ContinueLoop(t, s.i + 1)

(***************************************************************************)
(* Lines 178-192: the result, the cache write and the response.            *)
(***************************************************************************)
ShotPath(s) == [videoID |-> s.videoID, lang |-> s.lang, time |-> s.shotTime]

Result(s, shot) ==
  [video |-> s.videoID, lang |-> s.lang, captions |-> s.captions, screenshot |-> shot]

\* WritesCache without the check of line 188
WritesAlways(s) == TRUE

\* WritesCache for non-empty results only
WritesNonEmpty(s) == ~s.noCache /\ Len(s.captions) > 0

WritesCache(s) == ~s.noCache

Finish(r, s, shot) ==
  LET result == Result(s, shot)
      written == [s EXCEPT !.cacheSets = IF WritesCache(s) THEN 1 ELSE 0]
  IN /\ captionCache' =
          IF WritesCache(s)
            THEN CacheSet(captionCache, CacheKey(s.videoID, s.lang),
                          [timestamp |-> now, data |-> result])
            ELSE captionCache
     /\ rq' = [rq EXCEPT ![r] = Respond(written, Json(200, result))]

\* Settle with a cache write at every await of the loop
SettleWritesEarly(r, s) ==
  IF s.pc = "assembled" THEN Finish(r, s, {})
  ELSE /\ rq' = [rq EXCEPT ![r] = s]
       /\ captionCache' =
            IF WritesCache(s)
              THEN CacheSet(captionCache, CacheKey(s.videoID, s.lang),
                            [timestamp |-> now, data |-> Result(s, {})])
              ELSE captionCache

\* the rest of a continuation that ended in record s
Settle(r, s) ==
  IF s.pc = "assembled" THEN Finish(r, s, {})
  ELSE rq' = [rq EXCEPT ![r] = s] /\ UNCHANGED captionCache


(***************************************************************************)
(* Startup: lines 37-40 and 199-201.                                       *)
(***************************************************************************)
BrowserLaunched ==
  /\ browser = "undefined"
  /\ browser' = "launched"
  /\ UNCHANGED <<listening, captionCache, now, ticks, openContexts, started, rq, payload, outcome>>

Listen ==
  /\ ~listening
  /\ listening' = TRUE
  /\ UNCHANGED <<browser, captionCache, now, ticks, openContexts, started, rq, payload, outcome>>

\* Date.now() advances
Deltas == {1, CACHE_TTL - 1}

Tick(d) ==
  /\ ticks < MaxTicks
  /\ ticks' = ticks + 1
  /\ now' = now + d
  /\ UNCHANGED <<browser, listening, captionCache, openContexts, started, rq, payload, outcome>>

(***************************************************************************)
(* A request arrives: lines 125-146.                                       *)
(***************************************************************************)
Request(r, q) ==
  /\ listening
  /\ rq[r].pc \in {"idle", "done"}
  /\ started < MaxRequests
  /\ started' = started + 1
  /\ rq' = [rq EXCEPT ![r] = Entry(q)]
  /\ UNCHANGED <<browser, listening, captionCache, now, ticks, openContexts, payload, outcome>>

(***************************************************************************)
(* getCaptionTracks, lines 71-95, one action per await.                    *)
(***************************************************************************)
GctNext(pc) ==
  CASE pc = "gct_newContext" -> "gct_newPage"
    [] pc = "gct_newPage" -> "gct_waitForTimeout"
    [] pc = "gct_waitForTimeout" -> "gct_goto"
    [] pc = "gct_goto" -> "gct_evaluate"
    [] pc = "gct_evaluate" -> "gct_close"

GctNewContext(r) ==
  /\ rq[r].pc = "gct_newContext"
  /\ openContexts' = openContexts + 1
  /\ rq' = [rq EXCEPT ![r].pc = GctNext(@)]
  /\ UNCHANGED <<browser, listening, captionCache, now, ticks, started, payload, outcome>>

GctNewContextFails(r) ==
  /\ rq[r].pc = "gct_newContext"
  /\ rq' = [rq EXCEPT ![r] = Catch500(@)]
  /\ UNCHANGED <<browser, listening, captionCache, now, ticks, openContexts, started, payload, outcome>>

GctStep(r) ==
  /\ rq[r].pc \in {"gct_newPage", "gct_waitForTimeout", "gct_goto"}
  /\ rq' = [rq EXCEPT ![r].pc = GctNext(@)]
  /\ UNCHANGED <<browser, listening, captionCache, now, ticks, openContexts, started, payload, outcome>>

GctEvaluate(r, tracks) ==
  /\ rq[r].pc = "gct_evaluate"
  /\ rq' = [rq EXCEPT ![r].pc = GctNext(@), ![r].tracks = tracks]
  /\ UNCHANGED <<browser, listening, captionCache, now, ticks, openContexts, started, payload, outcome>>

\* GctStepFails with the empty result stored before the error is answered
GctStepFailsCaches(r) ==
  /\ rq[r].pc \in {"gct_newPage", "gct_waitForTimeout", "gct_goto", "gct_evaluate"}
  /\ rq' = [rq EXCEPT ![r] = Catch500(@)]
  /\ captionCache' = CacheSet(captionCache, CacheKey(rq[r].videoID, rq[r].lang),
                              [timestamp |-> now, data |-> Result(rq[r], {})])
  /\ UNCHANGED <<browser, listening, now, ticks, openContexts, started, payload, outcome>>

\* a step after newContext rejects: the function throws at that await and
\* line 93 is not reached, so the context stays open
GctStepFails(r) ==
  /\ rq[r].pc \in {"gct_newPage", "gct_waitForTimeout", "gct_goto", "gct_evaluate"}
  /\ rq' = [rq EXCEPT ![r] = Catch500(@)]
  /\ UNCHANGED <<browser, listening, captionCache, now, ticks, openContexts, started, payload, outcome>>

\* context.close() resolves, getCaptionTracks returns, the loop starts
GctClose(r) ==
  /\ rq[r].pc = "gct_close"
  /\ openContexts' = openContexts - 1
  /\ Settle(r, ContinueLoop([rq[r] EXCEPT !.returned = TRUE], 1))
  /\ UNCHANGED <<browser, listening, now, ticks, started, payload, outcome>>

(***************************************************************************)
(* axios.get settles: lines 157-173.                                       *)
(***************************************************************************)
FetchReturns(r) ==
  /\ rq[r].pc = "fetch"
  /\ \E response \in Responses(rq[r].tracks[rq[r].i].baseUrl) :
       Settle(r, AfterFetch(rq[r], response))
  /\ UNCHANGED <<browser, listening, now, ticks, openContexts, started, payload, outcome>>

(***************************************************************************)
(* takeScreenshot, lines 100-119, one action per await.                    *)
(***************************************************************************)
ShotNext(pc) ==
  CASE pc = "shot_newContext" -> "shot_newPage"
    [] pc = "shot_newPage" -> "shot_waitForTimeout"
    [] pc = "shot_waitForTimeout" -> "shot_goto"
    [] pc = "shot_goto" -> "shot_click"
    [] pc = "shot_click" -> "shot_waitForTimeout2"
    [] pc = "shot_waitForTimeout2" -> "shot_mkdir"
    [] pc = "shot_mkdir" -> "shot_screenshot"
    [] pc = "shot_screenshot" -> "shot_close"

ShotNewContext(r) ==
  /\ rq[r].pc = "shot_newContext"
  /\ openContexts' = openContexts + 1
  /\ rq' = [rq EXCEPT ![r].pc = ShotNext(@)]
  /\ UNCHANGED <<browser, listening, captionCache, now, ticks, started, payload, outcome>>

ShotNewContextFails(r) ==
  /\ rq[r].pc = "shot_newContext"
  /\ Finish(r, [rq[r] EXCEPT !.shotThrew = TRUE], {})
  /\ UNCHANGED <<browser, listening, now, ticks, openContexts, started, payload, outcome>>

\* page.click(...).catch(() => {}) continues whether or not the click worked
ShotStep(r) ==
  /\ rq[r].pc \in {"shot_newPage", "shot_waitForTimeout", "shot_goto", "shot_click",
                   "shot_waitForTimeout2", "shot_screenshot"}
  /\ rq' = [rq EXCEPT ![r].pc = ShotNext(@)]
  /\ UNCHANGED <<browser, listening, captionCache, now, ticks, openContexts, started, payload, outcome>>

\* fs.mkdir resolves; line 114 reads Date.now() for the file name
ShotMkdir(r) ==
  /\ rq[r].pc = "shot_mkdir"
  /\ rq' = [rq EXCEPT ![r].pc = ShotNext(@), ![r].shotTime = now]
  /\ UNCHANGED <<browser, listening, captionCache, now, ticks, openContexts, started, payload, outcome>>

\* ShotStepFails without the try/catch of lines 180-184
ShotStepFailsUncaught(r) ==
  /\ rq[r].pc \in {"shot_newPage", "shot_waitForTimeout", "shot_goto",
                   "shot_waitForTimeout2", "shot_mkdir", "shot_screenshot"}
  /\ rq' = [rq EXCEPT ![r] = Catch500([@ EXCEPT !.shotThrew = TRUE])]
  /\ UNCHANGED <<browser, listening, captionCache, now, ticks, openContexts, started, payload, outcome>>

\* a step after newContext rejects: line 117 is not reached, the error is
\* caught at line 182
ShotStepFails(r) ==
  /\ rq[r].pc \in {"shot_newPage", "shot_waitForTimeout", "shot_goto",
                   "shot_waitForTimeout2", "shot_mkdir", "shot_screenshot"}
  /\ Finish(r, [rq[r] EXCEPT !.shotThrew = TRUE], {})
  /\ UNCHANGED <<browser, listening, now, ticks, openContexts, started, payload, outcome>>

ShotClose(r) ==
  /\ rq[r].pc = "shot_close"
  /\ openContexts' = openContexts - 1
  /\ Finish(r, rq[r], {ShotPath(rq[r])})
  /\ UNCHANGED <<browser, listening, now, ticks, started, payload, outcome>>

(***************************************************************************)
(* The next-state relation over given request slots, queries and watch     *)
(* pages: NextCore is everything but takeScreenshot, whose steps NextShot  *)
(* adds for the queries that ask for a screenshot.                         *)
(***************************************************************************)
NextCore(slots, queries, lists) ==
  \/ BrowserLaunched
  \/ Listen
  \/ \E d \in Deltas : Tick(d)
  \/ \E r \in slots, q \in queries : Request(r, q)
  \/ \E r \in slots : GctNewContext(r)
  \/ \E r \in slots : GctNewContextFails(r)
  \/ \E r \in slots : GctStep(r)
  \/ \E r \in slots, tracks \in lists : GctEvaluate(r, tracks)
  \/ \E r \in slots : GctStepFails(r)
  \/ \E r \in slots : GctClose(r)
  \/ \E r \in slots : FetchReturns(r)

NextShot(slots) ==
  \/ \E r \in slots : ShotNewContext(r)
  \/ \E r \in slots : ShotNewContextFails(r)
  \/ \E r \in slots : ShotStep(r)
  \/ \E r \in slots : ShotMkdir(r)
  \/ \E r \in slots : ShotStepFails(r)
  \/ \E r \in slots : ShotClose(r)

(***************************************************************************)
(* Spec: requests for one video in the default language and requests that  *)
(* name no video, with every combination of screenshot and nocache, one    *)
(* request in flight at a time.                                            *)
(***************************************************************************)
OneKeyQueries ==
  {q \in Queries : q.video = EmptyStr \/ (q.video = <<"v">> /\ q.lang = EmptyStr)}
ShortLists == {l \in TrackLists : Len(l) <= 1}

Next == NextCore({1}, OneKeyQueries, ShortLists) \/ NextShot({1})

Spec == Init /\ [][Next]_vars

(***************************************************************************)
(* SpecFair: Spec where every pending browser operation and every pending  *)
(* fetch of a request settles, by returning or by failing.                 *)
(***************************************************************************)
Settles(r) ==
  \/ GctNewContext(r) \/ GctNewContextFails(r) \/ GctStep(r)
  \/ \E tracks \in ShortLists : GctEvaluate(r, tracks)
  \/ GctStepFails(r) \/ GctClose(r) \/ FetchReturns(r)
  \/ ShotNewContext(r) \/ ShotNewContextFails(r) \/ ShotStep(r) \/ ShotMkdir(r)
  \/ ShotStepFails(r) \/ ShotClose(r)

SpecFair == Init /\ [][Next]_vars /\ WF_vars(Settles(1))

(***************************************************************************)
(* SpecLoop: the candidate loop over every watch page above, for requests  *)
(* that bypass the cache and ask for no screenshot.                        *)
(***************************************************************************)
LoopQueries ==
  {q \in Queries : q.video = <<"v">> /\ q.lang \in {EmptyStr, <<"n">>}
                  /\ ~q.screenshot /\ q.nocache}

NextLoop == NextCore({1}, LoopQueries, TrackLists)

SpecLoop == Init /\ [][NextLoop]_vars

(***************************************************************************)
(* SpecKeys: every query string, without screenshots.                      *)
(***************************************************************************)
KeyQueries == {q \in Queries : ~q.screenshot}

NextKeys == NextCore({1}, KeyQueries, ShortLists)

SpecKeys == Init /\ [][NextKeys]_vars


(***************************************************************************)
(* SpecConc: two requests in flight at once, interleaved at every await,   *)
(* for one video in the default language and without screenshots.          *)
(***************************************************************************)
ConcQueries ==
  {q \in Queries : q.video = <<"v">> /\ q.lang = EmptyStr /\ ~q.screenshot}

NextConc == NextCore(Slots, ConcQueries, ShortLists)

SpecConc == Init /\ [][NextConc]_vars

(***************************************************************************)
(* index.js, parseEvents: the JSON3 events.  A numeric field of an event   *)
(* is absent or a number of milliseconds; segs is absent, a value that is  *)
(* not an array (a string, an object), or an array of segments; utf8 and   *)
(* text of a segment are absent or strings.  A JavaScript number that is   *)
(* the quotient of milliseconds by 1000 is kept as its thousandths, or is  *)
(* NaN.                                                                    *)
(***************************************************************************)
NoField == [kind |-> "absent", n |-> 0]
NumField(n) == [kind |-> "num", n |-> n]
NoStr == [kind |-> "absent", str |-> << >>]
Str(str) == [kind |-> "str", str |-> str]
Seg(utf8, text) == [utf8 |-> utf8, text |-> text]
NoSegs == [kind |-> "absent", list |-> << >>]
NotAList == [kind |-> "notlist", list |-> << >>]
SegList(list) == [kind |-> "list", list |-> list]

NaN == [nan |-> TRUE, milli |-> 0]
Thousandths(n) == [nan |-> FALSE, milli |-> n]

\* e.tStartMs / 1000
EventStart(e) == IF e.tStartMs.kind = "num" THEN Thousandths(e.tStartMs.n) ELSE NaN

\* EventDur without the || 0 of line 20
EventDurNoDefault(e) ==
  IF e.dDurationMs.kind = "num" THEN Thousandths(e.dDurationMs.n) ELSE NaN

\* (e.dDurationMs || 0) / 1000
EventDur(e) ==
  IF e.dDurationMs.kind = "num" THEN Thousandths(e.dDurationMs.n) ELSE Thousandths(0)

\* s.utf8 || s.text || ''
SegText(seg) ==
  IF seg.utf8.kind = "str" /\ seg.utf8.str # EmptyStr THEN seg.utf8.str
  ELSE IF seg.text.kind = "str" /\ seg.text.str # EmptyStr THEN seg.text.str
  ELSE EmptyStr

RECURSIVE Join(_)
Join(strs) == IF strs = << >> THEN EmptyStr ELSE Head(strs) \o Join(Tail(strs))

\* e.segs.map(...).join('').trim()
EventText(e) == Trim(Join([j \in 1..Len(e.segs.list) |-> SegText(e.segs.list[j])]))

Truthy(segs) == segs.kind # "absent"

parseEvents(events) ==
  LET kept == SelectSeq(events, LAMBDA e : Truthy(e.segs))
  IN IF \E j \in 1..Len(kept) : kept[j].segs.kind = "notlist" THEN Threw
     ELSE Returned([j \in 1..Len(kept) |->
                      [start |-> EventStart(kept[j]), dur |-> EventDur(kept[j]),
                       text |-> EventText(kept[j])]])

(***************************************************************************)
(* SpecParse: each parser applied to every payload of a bounded set.       *)
(***************************************************************************)
XmlNodes ==
  [start : {NumAttr(1), NumAttr(2), NoAttr, BadAttr, PrefixAttr(2)},
   dur : {NumAttr(1), NoAttr},
   text : {StrText(<<" ", "a", " ">>), NoText, NumText(7), NumText(0)}]

XmlDocs == UNION {[1..n -> XmlNodes] : n \in 0..MaxNodes}

SegLists ==
  {NoSegs, NotAList, SegList(<< >>),
   SegList(<<Seg(Str(<<" ", "a">>), NoStr)>>),
   SegList(<<Seg(Str(<<"a", " ">>), NoStr), Seg(NoStr, Str(<<"b">>))>>),
   SegList(<<Seg(NoStr, NoStr)>>),
   SegList(<<Seg(Str(<<"a">>), Str(<<"b">>)), Seg(Str(EmptyStr), Str(<<"c", " ">>))>>)}

Events ==
  [tStartMs : {NoField, NumField(500), NumField(1500)},
   dDurationMs : {NoField, NumField(2000)},
   segs : SegLists]

EventLists == UNION {[1..n -> Events] : n \in 0..MaxEvents}

Payloads ==
  {[fmt |-> "xml", data |-> doc] : doc \in XmlDocs}
    \cup {[fmt |-> "json3", data |-> events] : events \in EventLists}

Done(r) == [done |-> TRUE, threw |-> r.threw, entries |-> r.entries]

InitParse ==
  /\ browser = "undefined"
  /\ listening = FALSE
  /\ captionCache = << >>
  /\ now = 0
  /\ ticks = 0
  /\ openContexts = 0
  /\ started = 0
  /\ rq = [r \in Slots |-> Idle]
  /\ payload \in Payloads
  /\ outcome = NotParsed

ParseXml ==
  /\ payload.fmt = "xml"
  /\ ~outcome.done
  /\ outcome' = Done(parseXmlTranscript(payload.data))
  /\ UNCHANGED <<browser, listening, captionCache, now, ticks, openContexts, started, rq,
                 payload>>

ParseEvents ==
  /\ payload.fmt = "json3"
  /\ ~outcome.done
  /\ outcome' = Done(parseEvents(payload.data))
  /\ UNCHANGED <<browser, listening, captionCache, now, ticks, openContexts, started, rq,
                 payload>>

NextParse == ParseXml \/ ParseEvents

SpecParse == InitParse /\ [][NextParse]_vars

(***************************************************************************)
(*                               Properties                                *)
(***************************************************************************)

\* what a fetch returned parses to a non-empty sequence
NonEmptyParse(response) ==
  /\ response.ok
  /\ ~parseXmlTranscript(response.data).threw
  /\ Len(parseXmlTranscript(response.data).entries) > 0

\* lang is a prefix of code (or equal to it)
IsPrefixOf(lang, code) ==
  Len(lang) <= Len(code) /\ \A j \in 1..Len(lang) : code[j] = lang[j]

\* the numbers of the tracks that match the language, in list order
MatchingTracks(tracks, lang) ==
  SelectSeq([k \in 1..Len(tracks) |-> k],
            LAMBDA k : IsPrefixOf(lang, tracks[k].languageCode))

Answered(s) == s.pc = "done"

\* C1 (fallback law): once getCaptionTracks has returned, the fetches issued
\* are a prefix of the language-matching tracks in list order, each once; a
\* fetch that parses to a non-empty sequence is the last one issued; and the
\* response carries exactly the entries parsed from that fetch, which are
\* those of the first matching track with a non-empty parse, or no entries
\* when every matching track was tried without one.
C1_FallbackLaw ==
  \A r \in Slots :
    LET s == rq[r]
        m == MatchingTracks(s.tracks, s.lang)
        n == Len(s.got)
    IN s.returned =>
         /\ Len(s.fetched) <= Len(m)
         /\ s.fetched = SubSeq(m, 1, Len(s.fetched))
         /\ n <= Len(s.fetched)
         /\ \A j \in 1..n : NonEmptyParse(s.got[j]) => j = n /\ j = Len(s.fetched)
         /\ Answered(s) =>
              /\ n = Len(s.fetched)
              /\ Len(s.resp) = 1
              /\ s.resp[1].status = 200
              /\ \A d \in s.resp[1].data :
                   IF n > 0 /\ NonEmptyParse(s.got[n])
                     THEN /\ d.captions = parseXmlTranscript(s.got[n].data).entries
                          /\ \A e \in 1..Len(d.captions) :
                               d.captions[e].text = <<s.tracks[m[n]].baseUrl>>
                     ELSE /\ d.captions = << >>
                          /\ s.fetched = m

\* C1 witness: the second matching track won after the first one failed, and
\* a later matching track was never fetched.
C1_Witness ==
  \E r \in Slots :
    LET s == rq[r]
    IN /\ Answered(s) /\ s.returned
       /\ Len(s.fetched) = 2
       /\ ~NonEmptyParse(s.got[1])
       /\ NonEmptyParse(s.got[2])
       /\ Len(MatchingTracks(s.tracks, s.lang)) = 3
       /\ s.resp[1].status = 200
       /\ \E d \in s.resp[1].data : Len(d.captions) = 2

\* C6 (all per-candidate failures are soft): a request whose
\* getCaptionTracks returned is answered once, with status 200, and with an
\* empty captions list when no fetch parsed to a non-empty sequence.
C6_FailuresAreSoft ==
  \A r \in Slots :
    LET s == rq[r]
    IN s.returned /\ Answered(s) =>
         /\ Len(s.resp) = 1
         /\ s.resp[1].status = 200
         /\ ~s.resp[1].error
         /\ (\A j \in 1..Len(s.got) : ~NonEmptyParse(s.got[j])) =>
              \A d \in s.resp[1].data : d.captions = << >>

\* C6 witness: three candidates failed in three ways (fetch error, empty
\* document, document that does not parse) and the answer is 200 and empty.
C6_Witness ==
  \E r \in Slots :
    LET s == rq[r]
    IN /\ Answered(s) /\ s.returned
       /\ Len(s.got) = 3
       /\ \E a, b, c \in 1..3 :
            /\ ~s.got[a].ok
            /\ s.got[b].ok /\ Len(s.got[b].data) = 0
            /\ s.got[c].ok /\ parseXmlTranscript(s.got[c].data).threw
       /\ s.resp[1].status = 200
       /\ \E d \in s.resp[1].data : d.captions = << >>


(***************************************************************************)
(* Steps of one request, for the properties about what a step may change.  *)
(***************************************************************************)
\* this step is the arrival of a request in slot r
Arrives(r) == started' = started + 1 /\ rq'[r].id = started'

\* this step sends the 200 response of the resolution running in slot r
Completes(r) ==
  /\ rq[r].pc \notin {"idle", "done"}
  /\ rq'[r].pc = "done"
  /\ rq'[r].resp[1].status = 200

OneHour == 60 * 60 * 1000

KeyOf(s) == s.videoID \o <<"_">> \o s.lang

Ok200(data) == <<[status |-> 200, data |-> {data}, error |-> FALSE]>>

\* C2 (cache law): a non-bypassed request that finds an entry for its key
\* is answered with exactly the stored result, without resolution, when the
\* entry is less than one hour old, and starts a fresh resolution when it is
\* one hour old or older; a non-bypassed resolution that completes stores its
\* result under its key with the time of completion.
C2_CacheLaw ==
  [][\A r \in Slots :
       LET s == rq'[r]
           key == KeyOf(s)
       IN /\ (Arrives(r) /\ ~s.noCache /\ s.videoID # << >> /\ key \in DOMAIN captionCache) =>
               IF now - captionCache[key].timestamp < OneHour
                 THEN /\ s.resp = Ok200(captionCache[key].data)
                      /\ s.gctCalls = 0
                      /\ s.pc = "done"
                      /\ captionCache' = captionCache
                 ELSE /\ s.gctCalls = 1
                      /\ \A j \in 1..Len(s.resp) : s.resp[j].status # 200
          /\ (Completes(r) /\ ~s.noCache) =>
               /\ key \in DOMAIN captionCache'
               /\ captionCache'[key].timestamp = now
               /\ s.resp = Ok200(captionCache'[key].data)
    ]_vars

\* C2 witness: a request found an entry aged exactly one hour, resolved
\* afresh and overwrote it.
C2_Witness ==
  \E r \in Slots :
    LET s == rq[r]
    IN /\ Answered(s) /\ ~s.noCache
       /\ s.seenAge = OneHour
       /\ s.gctCalls = 1 /\ s.cacheSets = 1
       /\ captionCache[KeyOf(s)].timestamp = now
       /\ now >= OneHour

\* C3 (bypass law): a request with nocache=true that names a video always
\* calls getCaptionTracks, never looks the cache up, answers (when it
\* answers 200) with the result of its own resolution, and none of its steps
\* changes the cache map.
C3_BypassLaw ==
  /\ [](\A r \in Slots :
         LET s == rq[r]
         IN s.noCache /\ s.videoID # << >> /\ s.pc # "idle" =>
              /\ s.gctCalls = 1
              /\ s.cacheGets = 0 /\ s.cacheSets = 0
              /\ (Answered(s) /\ s.resp[1].status = 200) =>
                   /\ s.returned
                   /\ \A d \in s.resp[1].data :
                        d.video = s.videoID /\ d.lang = s.lang /\ d.captions = s.captions)
  /\ [][\A r \in Slots :
          (rq'[r] # rq[r] /\ rq'[r].noCache) => captionCache' = captionCache]_vars

\* C3 witness: a bypassing request was answered with captions of its own
\* while the cache held a fresh entry for its key with another result.
C3_Witness ==
  \E r \in Slots :
    LET s == rq[r]
    IN /\ Answered(s) /\ s.noCache /\ s.returned
       /\ s.resp[1].status = 200
       /\ KeyOf(s) \in DOMAIN captionCache
       /\ now - captionCache[KeyOf(s)].timestamp < OneHour
       /\ captionCache[KeyOf(s)].timestamp < now
       /\ s.captions # << >>
       /\ captionCache[KeyOf(s)].data.captions = << >>

\* C4 (a cache hit skips resolution): a non-bypassed request that arrives
\* while an entry less than one hour old exists for its key is answered at
\* once with the cached result, calls neither getCaptionTracks nor
\* takeScreenshot, issues no fetch, opens no context and leaves the cache
\* map, timestamps included, unchanged.
C4_HitSkipsResolution ==
  [][\A r \in Slots :
       LET s == rq'[r]
           key == KeyOf(s)
       IN (/\ Arrives(r) /\ ~s.noCache /\ s.videoID # << >>
           /\ key \in DOMAIN captionCache
           /\ now - captionCache[key].timestamp < OneHour) =>
            /\ s.pc = "done"
            /\ s.resp = Ok200(captionCache[key].data)
            /\ s.gctCalls = 0 /\ s.shotCalls = 0 /\ s.fetched = << >>
            /\ s.cacheSets = 0
            /\ openContexts' = openContexts
            /\ captionCache' = captionCache
    ]_vars

\* C4 witness: a request with screenshot=true was answered from the cache.
C4_Witness ==
  \E r \in Slots :
    LET s == rq[r]
    IN /\ Answered(s) /\ ~s.noCache /\ s.wantShot
       /\ s.seenAge >= 0 /\ s.seenAge < OneHour
       /\ s.gctCalls = 0 /\ s.shotCalls = 0
       /\ s.resp[1].status = 200

\* C5 (empty results are cached): a non-bypassed resolution that completes
\* with no captions stores that empty result under its key, and a
\* non-bypassed request arriving while such an entry is less than one hour
\* old is answered with empty captions without calling getCaptionTracks.
C5_EmptyResultCached ==
  [][\A r \in Slots :
       LET s == rq'[r]
           key == KeyOf(s)
       IN /\ (Completes(r) /\ ~s.noCache /\ s.captions = << >>) =>
               /\ key \in DOMAIN captionCache'
               /\ captionCache'[key].timestamp = now
               /\ captionCache'[key].data.captions = << >>
               /\ captionCache'[key].data.video = s.videoID
               /\ captionCache'[key].data.lang = s.lang
          /\ (/\ Arrives(r) /\ ~s.noCache /\ s.videoID # << >>
              /\ key \in DOMAIN captionCache
              /\ captionCache[key].data.captions = << >>
              /\ now - captionCache[key].timestamp < OneHour) =>
               /\ s.gctCalls = 0
               /\ s.resp = Ok200(captionCache[key].data)
    ]_vars

\* C5 witness: a request was answered from the cache with empty captions.
C5_Witness ==
  \E r \in Slots :
    LET s == rq[r]
    IN /\ Answered(s) /\ ~s.noCache
       /\ s.seenAge >= 0 /\ s.gctCalls = 0
       /\ s.resp[1].status = 200
       /\ \E d \in s.resp[1].data : d.captions = << >>

\* C7 (sessions are released on every exit path): when no request is in
\* flight, no browser context is open.
C7_SessionsReleased ==
  (\A r \in Slots : rq[r].pc \in {"idle", "done"}) => openContexts = 0

\* the captions of the winning fetch of s, or none
OwnCaptions(s) ==
  IF Len(s.got) > 0 /\ NonEmptyParse(s.got[Len(s.got)])
    THEN parseXmlTranscript(s.got[Len(s.got)].data).entries
    ELSE << >>

\* C8 (screenshot failure is absorbed): a request whose takeScreenshot threw
\* is answered once, with status 200 and the video, lang and captions of its
\* resolution, without a screenshot field; and unless it bypasses the cache,
\* the step that answers it stores that result under its key.
C8_ScreenshotFailureAbsorbed ==
  /\ [](\A r \in Slots :
         LET s == rq[r]
         IN Answered(s) /\ s.shotThrew =>
              s.resp = Ok200([video |-> s.videoID, lang |-> s.lang,
                              captions |-> OwnCaptions(s), screenshot |-> {}]))
  /\ [][\A r \in Slots :
          LET s == rq'[r]
          IN (rq[r].pc # "done" /\ Answered(s) /\ s.shotThrew /\ ~s.noCache) =>
               /\ KeyOf(s) \in DOMAIN captionCache'
               /\ captionCache'[KeyOf(s)] =
                    [timestamp |-> now,
                     data |-> [video |-> s.videoID, lang |-> s.lang,
                               captions |-> OwnCaptions(s), screenshot |-> {}]]
     ]_vars

\* C8 witness: a non-bypassed request with captions whose screenshot threw
\* was answered 200 and its result is in the cache.
C8_Witness ==
  \E r \in Slots :
    LET s == rq[r]
    IN /\ Answered(s) /\ s.shotThrew /\ ~s.noCache /\ s.wantShot
       /\ s.captions # << >>
       /\ s.resp[1].status = 200
       /\ KeyOf(s) \in DOMAIN captionCache
       /\ captionCache[KeyOf(s)].data.captions = s.captions
       /\ captionCache[KeyOf(s)].data.screenshot = {}

\* C9 (a validation error has no side effects): a request that names no
\* video is answered at once with status 400 and an error body, whatever its
\* lang, screenshot and nocache, without looking the cache up or writing it,
\* calling getCaptionTracks or takeScreenshot, fetching or opening a context.
C9_ValidationNoSideEffects ==
  [][\A r \in Slots :
       LET s == rq'[r]
       IN (Arrives(r) /\ s.videoID = << >>) =>
            /\ s.pc = "done"
            /\ s.resp = <<[status |-> 400, data |-> {}, error |-> TRUE]>>
            /\ s.cacheGets = 0 /\ s.cacheSets = 0
            /\ s.gctCalls = 0 /\ s.shotCalls = 0 /\ s.fetched = << >>
            /\ captionCache' = captionCache
            /\ openContexts' = openContexts
    ]_vars

\* C9 witness: a request without video, with lang, screenshot=true and
\* caching allowed, was answered 400 while the cache held an entry.
C9_Witness ==
  \E r \in Slots :
    LET s == rq[r]
    IN /\ Answered(s) /\ s.videoID = << >>
       /\ s.wantShot /\ ~s.noCache /\ s.lang = <<"n">>
       /\ s.resp[1].status = 400
       /\ DOMAIN captionCache # {}

\* C10 (cache keys are unique per (videoId, lang)): every 200 response
\* carries the video and the lang of the request it answers.
C10_ResponseMatchesRequest ==
  \A r \in Slots :
    LET s == rq[r]
    IN (Answered(s) /\ s.resp[1].status = 200) =>
         \A d \in s.resp[1].data : d.video = s.videoID /\ d.lang = s.lang


\* the code equals the requested language or begins with it
LangMatch(code, lang) == code = lang \/ \E n \in 0..Len(code) : SubSeq(code, 1, n) = lang

FetchedSet(s) == {s.fetched[j] : j \in 1..Len(s.fetched)}

\* C11 (language filter): a fetch is issued only for a track whose
\* languageCode equals the requested lang or begins with it, the chosen track
\* is such a track and the last one fetched, and when the request is
\* answered every such track before the chosen one (every such track when
\* none was chosen) has been fetched.
C11_LanguageFilter ==
  \A r \in Slots :
    LET s == rq[r]
    IN s.returned =>
         /\ \A k \in FetchedSet(s) : LangMatch(s.tracks[k].languageCode, s.lang)
         /\ s.successfulTrack # 0 =>
              /\ s.successfulTrack = s.fetched[Len(s.fetched)]
              /\ LangMatch(s.tracks[s.successfulTrack].languageCode, s.lang)
         /\ Answered(s) =>
              \A k \in 1..Len(s.tracks) :
                (/\ LangMatch(s.tracks[k].languageCode, s.lang)
                 /\ (s.successfulTrack = 0 \/ k < s.successfulTrack)) => k \in FetchedSet(s)

\* C11 witness: for lang "en" the list en-US, fr, en was answered after
\* fetching en-US (a prefix match) and en, the winner, and never fr.
C11_Witness ==
  \E r \in Slots :
    LET s == rq[r]
    IN /\ Answered(s) /\ s.returned
       /\ s.lang = <<"e", "n">>
       /\ Len(s.tracks) = 3
       /\ s.tracks[1].languageCode = ENUS
       /\ s.tracks[2].languageCode = FR
       /\ s.tracks[3].languageCode = EN
       /\ s.fetched = <<1, 3>>
       /\ s.successfulTrack = 3

(***************************************************************************)
(* The parsers.                                                            *)
(***************************************************************************)
ParsedXml == outcome.done /\ payload.fmt = "xml"
ParsedEvents == outcome.done /\ payload.fmt = "json3"

\* a <text> node whose inner text is a string
WellFormedNode(node) == node.text.kind = "str"

\* C12 (XML parser cardinality): for a timed-text payload of N well-formed
\* <text> nodes, N = 1 included, parseXmlTranscript returns without raising
\* exactly N entries in source order, and an entry whose start (dur)
\* attribute is missing or not numeric has start (dur) 0.
C12_XmlCardinality ==
  (/\ ParsedXml
   /\ \A j \in 1..Len(payload.data) : WellFormedNode(payload.data[j]))
    => /\ ~outcome.threw
       /\ Len(outcome.entries) = Len(payload.data)
       /\ \A j \in 1..Len(payload.data) :
            LET node == payload.data[j]
                entry == outcome.entries[j]
            IN /\ node.start.kind = "num" => entry.start = node.start.n
               /\ node.start.kind \in {"absent", "nonnum"} => entry.start = 0
               /\ node.dur.kind = "num" => entry.dur = node.dur.n
               /\ node.dur.kind \in {"absent", "nonnum"} => entry.dur = 0

HasSegments(e) == e.segs.kind # "absent"

\* the one text-bearing field of a segment, the empty string when it has none
TextField(seg) ==
  IF seg.utf8.kind = "str" THEN seg.utf8.str
  ELSE IF seg.text.kind = "str" THEN seg.text.str
  ELSE EmptyStr

OneTextField(e) ==
  \A j \in 1..Len(e.segs.list) :
    e.segs.list[j].utf8.kind = "absent" \/ e.segs.list[j].text.kind = "absent"

RECURSIVE Concat(_, _)
Concat(list, n) == IF n = 0 THEN EmptyStr ELSE Concat(list, n - 1) \o TextField(list[n])

\* C13 (JSON-events parser): for a sequence of events whose segments field,
\* where present, is a list, parseEvents returns one entry per event that
\* has a segments field, in input order, and none for the others; an entry
\* has start tStartMs/1000 (tStartMs present), dur dDurationMs/1000 or 0
\* when dDurationMs is absent, and as text the trimmed concatenation of its
\* segments' text fields, an absent text counting as the empty string.
C13_ParseEvents ==
  (/\ ParsedEvents
   /\ \A j \in 1..Len(payload.data) : payload.data[j].segs.kind # "notlist")
    => LET withSegments == SelectSeq(payload.data, HasSegments)
       IN /\ ~outcome.threw
          /\ Len(outcome.entries) = Len(withSegments)
          /\ \A j \in 1..Len(withSegments) :
               LET e == withSegments[j]
                   entry == outcome.entries[j]
               IN /\ e.tStartMs.kind = "num" =>
                       entry.start = [nan |-> FALSE, milli |-> e.tStartMs.n]
                  /\ entry.dur = [nan |-> FALSE,
                                  milli |-> IF e.dDurationMs.kind = "num"
                                              THEN e.dDurationMs.n ELSE 0]
                  /\ OneTextField(e) =>
                       entry.text = Trim(Concat(e.segs.list, Len(e.segs.list)))

\* C13 witness: of two events one has no segs and the other, starting at
\* 1.5 s without dDurationMs, has the segments "a " and "b"; one entry is
\* returned, with dur 0 and text "a b".
C13_Witness ==
  /\ ParsedEvents
  /\ ~outcome.threw
  /\ Len(payload.data) = 2
  /\ \E j \in 1..2 : ~HasSegments(payload.data[j])
  /\ Len(outcome.entries) = 1
  /\ outcome.entries[1].dur = [nan |-> FALSE, milli |-> 0]
  /\ outcome.entries[1].start = [nan |-> FALSE, milli |-> 1500]
  /\ outcome.entries[1].text = <<"a", " ", "b">>

\* C14 (parsers tolerate malformed fields): neither parser raises on any
\* payload, malformed entries included; every entry of parseEvents has
\* numbers for start and dur, 0 where tStartMs or dDurationMs is missing;
\* every entry of parseXmlTranscript has 0 for a missing or non-numeric start
\* or dur.
C14_ParsersTolerant ==
  outcome.done =>
    /\ ~outcome.threw
    /\ ParsedEvents =>
         LET withSegments == SelectSeq(payload.data, HasSegments)
         IN /\ Len(outcome.entries) = Len(withSegments)
            /\ \A j \in 1..Len(withSegments) :
                 /\ withSegments[j].tStartMs.kind = "absent" =>
                      outcome.entries[j].start = [nan |-> FALSE, milli |-> 0]
                 /\ withSegments[j].dDurationMs.kind = "absent" =>
                      outcome.entries[j].dur = [nan |-> FALSE, milli |-> 0]
    /\ (ParsedXml /\ Len(payload.data) > 1) =>
         /\ Len(outcome.entries) = Len(payload.data)
         /\ \A j \in 1..Len(payload.data) :
              /\ payload.data[j].start.kind \in {"absent", "nonnum"} =>
                   outcome.entries[j].start = 0
              /\ payload.data[j].dur.kind \in {"absent", "nonnum"} =>
                   outcome.entries[j].dur = 0

(***************************************************************************)
(* The phases of one request.                                              *)
(***************************************************************************)
GctPcs == {"gct_newContext", "gct_newPage", "gct_waitForTimeout", "gct_goto",
           "gct_evaluate", "gct_close"}

\* this step puts entry under key and leaves every other entry as it was
Stores(key, entry) ==
  /\ DOMAIN captionCache' = DOMAIN captionCache \cup {key}
  /\ captionCache'[key] = entry
  /\ \A k \in DOMAIN captionCache : k # key => captionCache'[k] = captionCache[k]

\* every fetch issued by s has settled
LoopAtRest(s) == s.pc # "fetch" /\ Len(s.got) = Len(s.fetched)

\* the loop of s found a winner or ran out of candidates
LoopFinished(s) ==
  /\ s.returned
  /\ LoopAtRest(s)
  /\ \/ s.successfulTrack # 0
     \/ \A k \in 1..Len(s.tracks) :
          LangMatch(s.tracks[k].languageCode, s.lang) => k \in FetchedSet(s)

\* C15 (phase ordering): a request issues its first fetch only after its
\* getCaptionTracks has returned; its screenshot capture starts only after
\* its loop has finished, and no fetch is issued after that; the cache is
\* written only by the step that sends the 200 response of a request whose
\* loop has finished and whose capture, if one was asked for, has ended, and
\* the entry written is the result sent.
C15_PhaseOrdering ==
  /\ [](\A r \in Slots :
         LET s == rq[r]
         IN /\ s.pc \in GctPcs => s.fetched = << >> /\ ~s.returned
            /\ s.fetched # << >> => s.returned /\ s.gctCalls = 1
            /\ s.shotCalls = 1 => LoopFinished(s)
            /\ s.cacheSets = 1 =>
                 /\ Answered(s)
                 /\ LoopFinished(s)
                 /\ s.wantShot => s.shotCalls = 1)
  /\ [][/\ \A r \in Slots :
            (rq[r].shotCalls = 1 /\ rq'[r].id = rq[r].id) =>
               rq'[r].fetched = rq[r].fetched
        /\ captionCache' # captionCache =>
             \E r \in Slots :
               LET s == rq'[r]
               IN /\ Completes(r)
                  /\ s.cacheSets = 1
                  /\ LoopFinished(s)
                  /\ Stores(KeyOf(s), [timestamp |-> now,
                                        data |-> CHOOSE d \in s.resp[1].data : TRUE])
       ]_vars

\* C15 witness: a request was answered after getCaptionTracks returned one
\* track, the fetch of that track, a screenshot capture that succeeded and
\* the cache write.
C15_Witness ==
  \E r \in Slots :
    LET s == rq[r]
    IN /\ Answered(s)
       /\ s.returned
       /\ s.fetched = <<1>>
       /\ s.successfulTrack = 1
       /\ s.shotCalls = 1
       /\ ~s.shotThrew
       /\ s.cacheSets = 1
       /\ s.resp = Ok200(Result(s, {ShotPath(s)}))
       /\ captionCache[KeyOf(s)].data = Result(s, {ShotPath(s)})

\* the result request s resolved by itself
OwnResult(s) ==
  [video |-> s.videoID, lang |-> s.lang, captions |-> OwnCaptions(s), screenshot |-> {}]

\* C16 (concurrent requests on one key): with requests for one (video, lang)
\* in flight together, the cache changes only in the step in which a
\* non-bypassed resolution completes, and after that step the entry of the
\* key is exactly that request's own result with the time of the step (last
\* write wins, never a mixture); a request answered on arrival gets the
\* result stored at that moment, and a request that resolved gets the
\* captions of its own winning fetch.
C16_LastWriteWins ==
  /\ [][/\ \A r \in Slots :
            LET s == rq'[r]
            IN /\ (Completes(r) /\ ~s.noCache) =>
                    /\ s.resp = Ok200(OwnResult(s))
                    /\ Stores(KeyOf(s), [timestamp |-> now, data |-> OwnResult(s)])
               /\ (Arrives(r) /\ Answered(s) /\ s.resp[1].status = 200) =>
                    /\ KeyOf(s) \in DOMAIN captionCache
                    /\ s.resp = Ok200(captionCache[KeyOf(s)].data)
        /\ captionCache' # captionCache =>
             \E r \in Slots : Completes(r) /\ ~rq'[r].noCache
       ]_vars
  /\ [](\A r \in Slots :
         LET s == rq[r]
         IN (Answered(s) /\ s.returned) => s.resp = Ok200(OwnResult(s)))

\* C16 witness: two non-bypassed requests for the same key both missed the
\* cache within the hour and wrote the cache, one with the captions of its
\* fetch and one with none; the entry is the result of one of them.
C16_Witness ==
  /\ now < OneHour
  /\ \A r \in Slots :
       /\ Answered(rq[r])
       /\ ~rq[r].noCache
       /\ rq[r].returned
       /\ rq[r].cacheSets = 1
  /\ KeyOf(rq[1]) = KeyOf(rq[2])
  /\ OwnCaptions(rq[1]) # OwnCaptions(rq[2])
  /\ captionCache[KeyOf(rq[1])].data \in {OwnResult(rq[1]), OwnResult(rq[2])}

\* the getCaptionTracks of s threw
ResolutionThrew(s) == Answered(s) /\ s.gctCalls = 1 /\ ~s.returned

\* C17 (total resolution failure): a request whose getCaptionTracks threw is
\* answered once, with status 500 and an error body, has issued no fetch and
\* started no screenshot capture and has not written the cache; the step in
\* which getCaptionTracks throws leaves the cache map as it was; and a later
\* non-bypassed request that finds no entry for its key, or one an hour old
\* or older, calls getCaptionTracks again.
C17_FailureLeavesCache ==
  /\ [](\A r \in Slots :
         LET s == rq[r]
         IN ResolutionThrew(s) =>
              /\ s.resp = <<[status |-> 500, data |-> {}, error |-> TRUE]>>
              /\ s.fetched = << >>
              /\ s.shotCalls = 0
              /\ s.cacheSets = 0)
  /\ [][\A r \in Slots :
          /\ (~ResolutionThrew(rq[r]) /\ ResolutionThrew(rq'[r])) =>
               captionCache' = captionCache
          /\ (/\ Arrives(r)
              /\ rq'[r].videoID # << >>
              /\ ~rq'[r].noCache
              /\ \/ KeyOf(rq'[r]) \notin DOMAIN captionCache
                 \/ now - captionCache[KeyOf(rq'[r])].timestamp >= OneHour) =>
               rq'[r].gctCalls = 1
       ]_vars

\* C17 witness: the second request found an entry an hour old or older, its
\* getCaptionTracks threw after the session was acquired, it was answered
\* 500 and the entry is still the old one.
C17_Witness ==
  \E r \in Slots :
    LET s == rq[r]
    IN /\ ResolutionThrew(s)
       /\ s.id = 2
       /\ s.seenAge >= OneHour
       /\ openContexts = 1
       /\ s.resp[1].status = 500
       /\ now - captionCache[KeyOf(s)].timestamp >= OneHour

\* the 200 response of s has a screenshot field
HasScreenshot(s) ==
  /\ Answered(s)
  /\ s.resp[1].status = 200
  /\ \E d \in s.resp[1].data : d.screenshot # {}

\* C18 (screenshot only on request): a 200 response has a screenshot field
\* only if its own request had screenshot=true and its capture succeeded; a
\* request without screenshot=true never receives a screenshot path, also
\* when it is answered from the cache.
C18_ScreenshotOnlyOnRequest ==
  \A r \in Slots :
    LET s == rq[r]
    IN HasScreenshot(s) => s.wantShot /\ s.shotCalls = 1 /\ ~s.shotThrew

\* the response of an answered request is one of the four the handler has
OneOfFour(s) ==
  LET response == s.resp[1]
  IN \/ /\ response = [status |-> 400, data |-> {}, error |-> TRUE]
        /\ s.videoID = << >>
        /\ s.gctCalls = 0
     \/ /\ response.status = 200 /\ ~response.error
        /\ s.gctCalls = 0
        /\ s.cacheGets = 1
        /\ s.seenAge \in 0..(OneHour - 1)
     \/ /\ response.status = 200 /\ ~response.error
        /\ s.gctCalls = 1
        /\ s.returned
     \/ /\ response = [status |-> 500, data |-> {}, error |-> TRUE]
        /\ s.gctCalls = 1
        /\ ~s.returned

\* C19 (exactly one response): when every pending browser operation and
\* fetch settles, every request that arrived is eventually answered; an
\* unanswered request has sent nothing and an answered one exactly one
\* response, which is 400 for a missing video, 200 from the cache, 200 from
\* a completed resolution, or 500 when the resolution threw.
C19_ExactlyOneResponse ==
  /\ [](\A r \in Slots :
         LET s == rq[r]
         IN IF Answered(s) THEN Len(s.resp) = 1 /\ OneOfFour(s)
            ELSE s.resp = << >>)
  /\ \A r \in Slots : (rq[r].pc # "idle") ~> Answered(rq[r])

\* C19 witness: a request has gone through getCaptionTracks, a fetch that
\* failed and a screenshot capture that failed, and has one response, 200.
C19_Witness ==
  \E r \in Slots :
    LET s == rq[r]
    IN /\ Answered(s)
       /\ Len(s.got) = 1
       /\ ~s.got[1].ok
       /\ s.shotThrew
       /\ Len(s.resp) = 1
       /\ s.resp[1].status = 200

\* C20 (browser ready before use): no request calls browser.newContext, in
\* getCaptionTracks or in takeScreenshot, before chromium.launch has
\* resolved: whenever a request has made such a call the browser is
\* launched.
C20_BrowserReadyBeforeUse ==
  \A r \in Slots :
    (rq[r].gctCalls = 1 \/ rq[r].shotCalls = 1) => browser = "launched"
====
